---- MODULE Spec2Model ----
(***************************************************************************)
(* AquaFlow AI (src/app.py): the analytical engine (ai_predict_energy,     *)
(* ai_predict_water_demand, calculate_carbon_credits), the decision logic  *)
(* on efficiency_ratio and the "Run AI Diagnostic" handler that calls      *)
(* them.                                                                   *)
(*                                                                         *)
(* Numbers are exact rationals <<n, d>> in lowest terms with d > 0, so     *)
(* 0.6, 0.85, 0.004 ... are the decimal values the source writes; the      *)
(* rounding of binary floating point is not part of the model.  None (a    *)
(* name not bound yet in the script run) is the empty tuple.               *)
(*                                                                         *)
(* Spec   : the Streamlit script: the three sidebar widgets, the button    *)
(*          and the handler of lines 67-93, one step per engine call.      *)
(* SpecFn : the three engine functions applied to arguments drawn from     *)
(*          sets wider than the widgets allow.                             *)
(***************************************************************************)
EXTENDS Integers, Sequences, FiniteSets

None == <<>>

\* ------------------------------------------------------------------------
\* Arithmetic of the source's numbers
\* ------------------------------------------------------------------------
Abs(x) == IF x < 0 THEN -x ELSE x

RECURSIVE Gcd(_, _)
Gcd(a, b) == IF b = 0 THEN a ELSE Gcd(b, a % b)

\* the number n/d (d # 0) in lowest terms, sign on the numerator
Rat(n, d) ==
    LET s == IF d < 0 THEN -1 ELSE 1
        g == Gcd(Abs(n), Abs(d))
    IN  <<(s * n) \div g, (s * d) \div g>>

Num(n) == <<n, 1>>

RAdd(a, b) == Rat(a[1] * b[2] + b[1] * a[2], a[2] * b[2])
RSub(a, b) == Rat(a[1] * b[2] - b[1] * a[2], a[2] * b[2])
RMul(a, b) == Rat(a[1] * b[1], a[2] * b[2])
\* a / b for b # 0 (the caller decides what b = 0 does)
RDiv(a, b) == Rat(a[1] * b[2], a[2] * b[1])
RLe(a, b) == a[1] * b[2] <= b[1] * a[2]
RLt(a, b) == a[1] * b[2] < b[1] * a[2]
RGe(a, b) == RLe(b, a)
RGt(a, b) == RLt(b, a)
\* Python's max(a, b): b only when it is strictly greater
RMax(a, b) == IF RGt(b, a) THEN b ELSE a

\* ------------------------------------------------------------------------
\* 1. AI & ANALYTICAL ENGINE
\* ------------------------------------------------------------------------
PanelEfficiencyDefault == Rat(18, 100)

ai_predict_energy_unfloored(temp, sunlight_hrs, panel_efficiency) ==
    LET base_irradiance ==
            RMul(RMul(sunlight_hrs, Num(1000)),
                 RAdd(Num(1), RMul(RSub(temp, Num(25)), Rat(-4, 1000))))
        prediction == RMul(RMul(base_irradiance, panel_efficiency), Num(50))
    IN  prediction

ai_predict_energy_warming(temp, sunlight_hrs, panel_efficiency) ==
    LET base_irradiance ==
            RMul(RMul(sunlight_hrs, Num(1000)),
                 RAdd(Num(1), RMul(RSub(temp, Num(25)), Rat(4, 1000))))
        prediction == RMul(RMul(base_irradiance, panel_efficiency), Num(50))
    IN  RMax(Num(0), prediction)

ai_predict_energy_100sqm(temp, sunlight_hrs, panel_efficiency) ==
    LET base_irradiance ==
            RMul(RMul(sunlight_hrs, Num(1000)),
                 RAdd(Num(1), RMul(RSub(temp, Num(25)), Rat(-4, 1000))))
        prediction == RMul(RMul(base_irradiance, panel_efficiency), Num(100))
    IN  RMax(Num(0), prediction)

ai_predict_energy(temp, sunlight_hrs, panel_efficiency) ==
    LET base_irradiance ==
            RMul(RMul(sunlight_hrs, Num(1000)),
                 RAdd(Num(1), RMul(RSub(temp, Num(25)), Rat(-4, 1000))))
        prediction == RMul(RMul(base_irradiance, panel_efficiency), Num(50))
    IN  RMax(Num(0), prediction)

ai_predict_water_demand_nofloor(temp, population) ==
    LET base_consumption == Num(50)
        temp_factor == RAdd(Num(1), RMul(RSub(temp, Num(20)), Rat(5, 100)))
        demand == RMul(RMul(population, base_consumption), temp_factor)
    IN  demand

ai_predict_water_demand_from25(temp, population) ==
    LET base_consumption == Num(50)
        temp_factor ==
            RAdd(Num(1), RMul(RMax(Num(0), RSub(temp, Num(25))), Rat(5, 100)))
        demand == RMul(RMul(population, base_consumption), temp_factor)
    IN  demand

ai_predict_water_demand(temp, population) ==
    LET base_consumption == Num(50)
        temp_factor ==
            RAdd(Num(1), RMul(RMax(Num(0), RSub(temp, Num(20))), Rat(5, 100)))
        demand == RMul(RMul(population, base_consumption), temp_factor)
    IN  demand

calculate_carbon_credits_on_kwh(solar_energy_kwh) ==
    LET DIESEL_EMISSION_FACTOR == Rat(85, 100)
        CARBON_MARKET_PRICE == Rat(4, 100)
        co2_saved == RMul(solar_energy_kwh, DIESEL_EMISSION_FACTOR)
        financial_value == RMul(solar_energy_kwh, CARBON_MARKET_PRICE)
    IN  <<co2_saved, financial_value>>

\* the pair (co2_saved, financial_value)
calculate_carbon_credits(solar_energy_kwh) ==
    LET DIESEL_EMISSION_FACTOR == Rat(85, 100)
        CARBON_MARKET_PRICE == Rat(4, 100)
        co2_saved == RMul(solar_energy_kwh, DIESEL_EMISSION_FACTOR)
        financial_value == RMul(co2_saved, CARBON_MARKET_PRICE)
    IN  <<co2_saved, financial_value>>

\* ------------------------------------------------------------------------
\* Decision Logic (lines 86-93)
\* ------------------------------------------------------------------------
\* the divisor of line 86
PumpEnergy(water_demand) == RMul(water_demand, Rat(5, 1000))

\* the branch taken by the if / elif / else of lines 88-93, named by the
\* headline of the message it shows
Recommendation_strict(efficiency_ratio) ==
    IF RGt(efficiency_ratio, Num(1)) THEN "Optimal"
    ELSE IF RGt(efficiency_ratio, Rat(6, 10)) THEN "Partial"
    ELSE "Critical"

Recommendation(efficiency_ratio) ==
    IF RGe(efficiency_ratio, Num(1)) THEN "Optimal"
    ELSE IF RGt(efficiency_ratio, Rat(6, 10)) THEN "Partial"
    ELSE "Critical"

\* ------------------------------------------------------------------------
\* 3. SIDEBAR INPUTS: the values the widgets can hold
\* ------------------------------------------------------------------------
TempMin == 0
TempMax == 50
TempDefault == 25
SunMin == 0
SunMax == 14
SunDefault == 8
PopDefault == 1000
PopStep == 100

\* slider positions visited: NumTempStops + 1 evenly spread, and the default
NumTempStops == 3
NumSunStops == 1
\* typed populations visited: up to MaxPopScale hundred thousands
MaxPopScale == 3

TempStops ==
    {TempMin + (k * (TempMax - TempMin)) \div NumTempStops : k \in 0..NumTempStops}
        \cup {TempDefault}

SunStops ==
    {SunMin + (k * (SunMax - SunMin)) \div NumSunStops : k \in 0..NumSunStops}
        \cup {SunDefault}

\* number_input has no min_value: one step below zero, zero, the default,
\* large communities, and the two populations at which the default sliders
\* give an efficiency_ratio of exactly 1.0 and exactly 0.6
Populations ==
    {-PopStep, 0, PopDefault} \cup {230400, 384000}
        \cup {k * 100000 : k \in 1..MaxPopScale}

\* ------------------------------------------------------------------------
\* State
\* ------------------------------------------------------------------------
VARIABLES
    temp,               \* line 58
    sunlight,           \* line 59
    population,         \* line 60
    panel_efficiency,   \* parameter of ai_predict_energy (line 14)
    solar_energy_kwh,   \* parameter of calculate_carbon_credits (line 29)
    pc,                 \* where the script run is
    energy_output,      \* line 68
    water_demand,       \* line 69
    co2_saved,          \* line 70
    credits_value,      \* line 70
    efficiency_ratio,   \* line 86
    tier,               \* the branch of lines 88-93 that rendered
    calls,              \* the engine calls of this script run, in order
    prior               \* at most one earlier diagnostic run, remembered whole

vars == <<temp, sunlight, population, panel_efficiency, solar_energy_kwh, pc,
          energy_output, water_demand, co2_saved, credits_value,
          efficiency_ratio, tier, calls, prior>>

widgets == <<temp, sunlight, population>>

\* a script run starts with none of the handler's names bound
Unbound ==
    /\ solar_energy_kwh' = None
    /\ energy_output' = None
    /\ water_demand' = None
    /\ co2_saved' = None
    /\ credits_value' = None
    /\ efficiency_ratio' = None
    /\ tier' = "None"
    /\ calls' = <<>>

\* the script thread is between runs
Settled == pc \in {"idle", "done", "raised"}

Init ==
    /\ temp = Num(TempDefault)
    /\ sunlight = Num(SunDefault)
    /\ population = Num(PopDefault)
    /\ panel_efficiency = PanelEfficiencyDefault
    /\ solar_energy_kwh = None
    /\ pc = "idle"
    /\ energy_output = None
    /\ water_demand = None
    /\ co2_saved = None
    /\ credits_value = None
    /\ efficiency_ratio = None
    /\ tier = "None"
    /\ calls = <<>>
    /\ prior = {}

\* the diagnostic run whose results are on the page: its inputs and outputs
ThisRun ==
    [temp |-> temp, sunlight |-> sunlight, population |-> population,
     energy_output |-> energy_output, water_demand |-> water_demand,
     co2_saved |-> co2_saved, credits_value |-> credits_value,
     efficiency_ratio |-> efficiency_ratio, tier |-> tier, pc |-> pc]

\* the next script run replaces the page; the run it replaces may be the one
\* prior keeps
Remember ==
    prior' \in IF pc \in {"done", "raised"} THEN {prior, {ThisRun}} ELSE {prior}

\* ------------------------------------------------------------------------
\* Widget changes: the script reruns with the button False (lines 114-116)
\* ------------------------------------------------------------------------
SetTemp ==
    /\ Settled
    /\ \E t \in TempStops : Num(t) # temp /\ temp' = Num(t)
    /\ pc' = "idle"
    /\ Unbound
    /\ Remember
    /\ UNCHANGED <<sunlight, population, panel_efficiency>>

SetSunlight ==
    /\ Settled
    /\ \E s \in SunStops : Num(s) # sunlight /\ sunlight' = Num(s)
    /\ pc' = "idle"
    /\ Unbound
    /\ Remember
    /\ UNCHANGED <<temp, population, panel_efficiency>>

SetPopulation ==
    /\ Settled
    /\ \E p \in Populations : Num(p) # population /\ population' = Num(p)
    /\ pc' = "idle"
    /\ Unbound
    /\ Remember
    /\ UNCHANGED <<temp, sunlight, panel_efficiency>>

\* ------------------------------------------------------------------------
\* 4. EXECUTION & RESULTS: the button and the handler
\* ------------------------------------------------------------------------
ClickRun ==
    /\ Settled
    /\ pc' = "l68"
    /\ Unbound
    /\ Remember
    /\ UNCHANGED <<widgets, panel_efficiency>>

Line68_running_total ==
    /\ pc = "l68"
    /\ energy_output' =
            LET fresh == ai_predict_energy(temp, sunlight, PanelEfficiencyDefault)
            IN  IF prior = {} THEN fresh
                ELSE RAdd(fresh, (CHOOSE r \in prior : TRUE).energy_output)
    /\ calls' = Append(calls, "ai_predict_energy")
    /\ pc' = "l69"
    /\ UNCHANGED <<widgets, panel_efficiency, solar_energy_kwh, water_demand,
                   co2_saved, credits_value, efficiency_ratio, tier, prior>>

Line68 ==
    /\ pc = "l68"
    /\ energy_output' = ai_predict_energy(temp, sunlight, PanelEfficiencyDefault)
    /\ calls' = Append(calls, "ai_predict_energy")
    /\ pc' = "l69"
    /\ UNCHANGED <<widgets, panel_efficiency, solar_energy_kwh, water_demand,
                   co2_saved, credits_value, efficiency_ratio, tier, prior>>

Line69_valuator_first ==
    /\ pc = "l69"
    /\ solar_energy_kwh' = energy_output
    /\ co2_saved' = calculate_carbon_credits(energy_output)[1]
    /\ credits_value' = calculate_carbon_credits(energy_output)[2]
    /\ calls' = Append(calls, "calculate_carbon_credits")
    /\ pc' = "l70"
    /\ UNCHANGED <<widgets, panel_efficiency, energy_output, water_demand,
                   efficiency_ratio, tier, prior>>

Line69 ==
    /\ pc = "l69"
    /\ water_demand' = ai_predict_water_demand(temp, population)
    /\ calls' = Append(calls, "ai_predict_water_demand")
    /\ pc' = "l70"
    /\ UNCHANGED <<widgets, panel_efficiency, solar_energy_kwh, energy_output,
                   co2_saved, credits_value, efficiency_ratio, tier, prior>>

Line70 ==
    /\ pc = "l70"
    /\ solar_energy_kwh' = energy_output
    /\ co2_saved' = calculate_carbon_credits(energy_output)[1]
    /\ credits_value' = calculate_carbon_credits(energy_output)[2]
    /\ calls' = Append(calls, "calculate_carbon_credits")
    /\ pc' = "l86"
    /\ UNCHANGED <<widgets, panel_efficiency, energy_output, water_demand,
                   efficiency_ratio, tier, prior>>

\* lines 86-93; a zero divisor raises ZeroDivisionError and no branch renders
DecisionLogic ==
    /\ pc = "l86"
    /\ calls' = Append(calls, "decision_logic")
    /\ IF PumpEnergy(water_demand) = Num(0)
       THEN /\ efficiency_ratio' = None
            /\ tier' = "None"
            /\ pc' = "raised"
       ELSE /\ efficiency_ratio' = RDiv(energy_output, PumpEnergy(water_demand))
            /\ tier' = Recommendation(efficiency_ratio')
            /\ pc' = "done"
    /\ UNCHANGED <<widgets, panel_efficiency, solar_energy_kwh, energy_output,
                   water_demand, co2_saved, credits_value, prior>>

Next ==
    \/ SetTemp
    \/ SetSunlight
    \/ SetPopulation
    \/ ClickRun
    \/ Line68
    \/ Line69
    \/ Line70
    \/ DecisionLogic

Spec == Init /\ [][Next]_vars

\* ------------------------------------------------------------------------
\* The engine functions on their own, over arguments the widgets cannot give
\* ------------------------------------------------------------------------
\* temperatures up to MaxHotScale hundred degrees: past 275 the derating
\* factor of line 18 is negative
MaxHotScale == 3

FnTemps ==
    {Num(t) : t \in {-10, 20, 25, 30}} \cup {Rat(41, 2)}
        \cup {Num(100 * k) : k \in 0..MaxHotScale}
FnSunlight == {Num(-1), Num(0), Rat(1, 2), Num(8), Num(14)}
FnPopulations == {Num(-100), Num(0), Num(1), Num(1000), Num(1234)}
FnEfficiencies == {PanelEfficiencyDefault, Num(0), Rat(22, 100)}
FnKwh == {Num(-1), Num(0), Rat(5, 2), Num(100), Num(72000)}

InitFn ==
    /\ temp \in FnTemps
    /\ sunlight \in FnSunlight
    /\ population \in FnPopulations
    /\ panel_efficiency \in FnEfficiencies \cup {None}
    /\ solar_energy_kwh \in FnKwh
    /\ pc = "fn"
    /\ energy_output = None
    /\ water_demand = None
    /\ co2_saved = None
    /\ credits_value = None
    /\ efficiency_ratio = None
    /\ tier = "None"
    /\ calls = <<>>
    /\ prior = {}

\* panel_efficiency = None: the call leaves the third argument out
FnPredictEnergy ==
    /\ pc = "fn"
    /\ energy_output = None
    /\ energy_output' =
            ai_predict_energy(temp, sunlight,
                IF panel_efficiency = None THEN PanelEfficiencyDefault
                ELSE panel_efficiency)
    /\ UNCHANGED <<widgets, panel_efficiency, solar_energy_kwh, pc, water_demand,
                   co2_saved, credits_value, efficiency_ratio, tier, calls, prior>>

FnPredictWaterDemand ==
    /\ pc = "fn"
    /\ water_demand = None
    /\ water_demand' = ai_predict_water_demand(temp, population)
    /\ UNCHANGED <<widgets, panel_efficiency, solar_energy_kwh, pc, energy_output,
                   co2_saved, credits_value, efficiency_ratio, tier, calls, prior>>

FnCarbonCredits ==
    /\ pc = "fn"
    /\ co2_saved = None
    /\ co2_saved' = calculate_carbon_credits(solar_energy_kwh)[1]
    /\ credits_value' = calculate_carbon_credits(solar_energy_kwh)[2]
    /\ UNCHANGED <<widgets, panel_efficiency, solar_energy_kwh, pc, energy_output,
                   water_demand, efficiency_ratio, tier, calls, prior>>

NextFn ==
    \/ FnPredictEnergy
    \/ FnPredictWaterDemand
    \/ FnCarbonCredits

SpecFn == InitFn /\ [][NextFn]_vars

\* ------------------------------------------------------------------------
\* Properties
\* ------------------------------------------------------------------------
Called(f) == \E i \in 1..Len(calls) : calls[i] = f

EngineOrder ==
    <<"ai_predict_energy", "ai_predict_water_demand",
      "calculate_carbon_credits", "decision_logic">>

TierRank(t) == IF t = "Optimal" THEN 2 ELSE IF t = "Partial" THEN 1 ELSE 0

\* C1: when the decision logic runs on a water demand of zero it raises
\* nothing and shows the Optimal recommendation.
C1_ZeroDemandIsOptimal ==
    (Called("decision_logic") /\ water_demand = Num(0))
        => (pc = "done" /\ tier = "Optimal")

\* C2 as claimed: on a positive water demand the recommendation is Optimal
\* for ratio >= 1.0, Partial for 0.6 <= ratio < 1.0 and Critical below 0.6,
\* so exactly 0.6 is Partial.
C2_ClosedAtSixTenths ==
    (pc = "done" /\ RGt(water_demand, Num(0))) =>
        tier = IF RGe(efficiency_ratio, Num(1)) THEN "Optimal"
               ELSE IF RGe(efficiency_ratio, Rat(6, 10)) THEN "Partial"
               ELSE "Critical"

\* C2 amended: on a positive water demand the recommendation is Optimal
\* exactly when ratio >= 1.0, Partial exactly when 0.6 < ratio < 1.0 and
\* Critical exactly when ratio <= 0.6; a ratio of exactly 1.0 is Optimal and
\* a ratio of exactly 0.6 is Critical.
C2_OpenAtSixTenths ==
    (pc = "done" /\ RGt(water_demand, Num(0))) =>
        /\ tier \in {"Optimal", "Partial", "Critical"}
        /\ tier = "Optimal" <=> RGe(efficiency_ratio, Num(1))
        /\ tier = "Partial" <=>
              (RGt(efficiency_ratio, Rat(6, 10)) /\ RLt(efficiency_ratio, Num(1)))
        /\ tier = "Critical" <=> RLe(efficiency_ratio, Rat(6, 10))

C2_AtSixTenths ==
    /\ pc = "done"
    /\ RGt(water_demand, Num(0))
    /\ efficiency_ratio = Rat(6, 10)
    /\ tier = "Critical"

\* C3: for every temperature and every sunlight_hours >= 0 the energy that
\* ai_predict_energy returns is >= 0, also where the derating factor is
\* negative.
C3_EnergyNeverNegative ==
    (energy_output # None /\ RGe(sunlight, Num(0)))
        => RGe(energy_output, Num(0))

C3_NegativeDerating ==
    /\ energy_output = Num(0)
    /\ RGt(temp, Num(275))
    /\ RGt(sunlight, Num(0))
    /\ panel_efficiency # None
    /\ RGt(panel_efficiency, Num(0))

\* C4: the demand ai_predict_water_demand returned for a population >= 0 is
\* no more than its demand at any higher temperature with that population,
\* and no more than its demand at that temperature for any larger population.
C4_DemandMonotone ==
    (water_demand # None /\ RGe(population, Num(0))) =>
        /\ \A t2 \in FnTemps :
              RLe(temp, t2) =>
                  RLe(water_demand, ai_predict_water_demand(t2, population))
        /\ \A p2 \in FnPopulations :
              RLe(population, p2) =>
                  RLe(water_demand, ai_predict_water_demand(temp, p2))

C4_DemandGrows ==
    /\ water_demand # None
    /\ RGt(population, Num(0))
    /\ \E t2 \in FnTemps :
          /\ RLt(temp, t2)
          /\ RLt(water_demand, ai_predict_water_demand(t2, population))
    /\ \E p2 \in FnPopulations :
          /\ RLt(population, p2)
          /\ RLt(water_demand, ai_predict_water_demand(temp, p2))

\* C5: a diagnostic run calls ai_predict_energy, ai_predict_water_demand,
\* calculate_carbon_credits and the decision logic in that order: the
\* valuator never runs before the solar estimate exists, the decision logic
\* never before both estimates exist, and a finished run made all four calls.
C5_FixedOrder ==
    /\ Len(calls) <= Len(EngineOrder)
    /\ calls = SubSeq(EngineOrder, 1, Len(calls))
    /\ Called("calculate_carbon_credits") => energy_output # None
    /\ Called("decision_logic") => (energy_output # None /\ water_demand # None)
    /\ pc \in {"done", "raised"} => calls = EngineOrder

C5_RunFinished == pc = "done" /\ calls = EngineOrder /\ tier # "None"

\* C6: ai_predict_energy returns
\* max(0, sunlight_hours * 1000 * (1 + (temperature - 25) * -0.004)
\*        * panel_efficiency * 50),
\* with panel_efficiency 0.18 when the call leaves it out; (25, 8) gives 72000.
C6_EnergyFormula ==
    energy_output # None =>
        LET eff == IF panel_efficiency = None THEN Rat(18, 100)
                   ELSE panel_efficiency
            derating == RAdd(Num(1), RMul(RSub(temp, Num(25)), Rat(-4, 1000)))
            value == RMul(RMul(RMul(RMul(sunlight, Num(1000)), derating), eff),
                          Num(50))
        IN  /\ energy_output = RMax(Num(0), value)
            /\ (temp = Num(25) /\ sunlight = Num(8) /\ panel_efficiency = None)
                  => energy_output = Num(72000)

C6_DefaultCall ==
    /\ temp = Num(25)
    /\ sunlight = Num(8)
    /\ panel_efficiency = None
    /\ energy_output = Num(72000)

\* C7: ai_predict_water_demand returns
\* population * 50 * (1 + max(0, temperature - 20) * 0.05): population * 50
\* at or below 20 degrees, 50000 for (20, 1000) and 75000 for (30, 1000).
C7_DemandFormula ==
    water_demand # None =>
        LET factor ==
                RAdd(Num(1), RMul(RMax(Num(0), RSub(temp, Num(20))), Rat(5, 100)))
        IN  /\ water_demand = RMul(RMul(population, Num(50)), factor)
            /\ RLe(temp, Num(20)) => water_demand = RMul(population, Num(50))
            /\ (temp = Num(20) /\ population = Num(1000))
                  => water_demand = Num(50000)
            /\ (temp = Num(30) /\ population = Num(1000))
                  => water_demand = Num(75000)

C7_ThirtyDegrees ==
    /\ temp = Num(30)
    /\ population = Num(1000)
    /\ water_demand = Num(75000)

\* C8: for solar_energy_kwh >= 0, calculate_carbon_credits returns
\* co2_saved = solar_energy_kwh * 0.85 and financial_value = co2_saved * 0.04,
\* both >= 0; 100 kWh gives (85.0, 3.4).
C8_CreditsFormula ==
    (co2_saved # None /\ RGe(solar_energy_kwh, Num(0))) =>
        /\ co2_saved = RMul(solar_energy_kwh, Rat(85, 100))
        /\ credits_value = RMul(co2_saved, Rat(4, 100))
        /\ RGe(co2_saved, Num(0))
        /\ RGe(credits_value, Num(0))
        /\ solar_energy_kwh = Num(100)
              => (co2_saved = Num(85) /\ credits_value = Rat(34, 10))

C8_HundredKwh ==
    /\ solar_energy_kwh = Num(100)
    /\ co2_saved = Num(85)
    /\ credits_value = Rat(34, 10)

\* C9: a diagnostic run on the same temperature, sunlight hours and
\* population as an earlier run ends with the same solar energy, water
\* demand, CO2 saved, credit value and recommendation (or the same fault),
\* whatever ran in between.
C9_SameInputsSameOutputs ==
    \A r \in prior :
        ( /\ pc \in {"done", "raised"}
          /\ r.temp = temp
          /\ r.sunlight = sunlight
          /\ r.population = population )
        => /\ r.energy_output = energy_output
           /\ r.water_demand = water_demand
           /\ r.co2_saved = co2_saved
           /\ r.credits_value = credits_value
           /\ r.tier = tier
           /\ r.pc = pc

C9_RepeatedRun ==
    /\ pc = "done"
    /\ RGt(energy_output, Num(0))
    /\ \E r \in prior :
          /\ r.temp = temp
          /\ r.sunlight = sunlight
          /\ r.population = population
          /\ r.tier = tier

\* C10: with the same sunlight hours and the same population > 0, a run at a
\* temperature no lower than an earlier run's has an efficiency_ratio no
\* higher, and a recommendation no better in Optimal > Partial > Critical.
C10_HotterNeverBetter ==
    \A r \in prior :
        ( /\ pc = "done"
          /\ r.pc = "done"
          /\ r.sunlight = sunlight
          /\ r.population = population
          /\ RGt(population, Num(0))
          /\ RLe(r.temp, temp) )
        => /\ RLe(efficiency_ratio, r.efficiency_ratio)
           /\ TierRank(tier) <= TierRank(r.tier)

C10_HotterAndWorse ==
    /\ pc = "done"
    /\ tier = "Partial"
    /\ \E r \in prior :
          /\ r.pc = "done"
          /\ r.sunlight = sunlight
          /\ r.population = population
          /\ RLt(r.temp, temp)
          /\ r.tier = "Optimal"

====
